---- MODULE Spec2Model ----
(***************************************************************************)
(* Decomposition tree: the hierarchy builder (calculate_metric, get_color, *)
(* build_hierarchy) of data_utils.py / streamlit_ncc_sis.py (metrics NCC,  *)
(* NCC_PY, YoY_Growth, Avg_NCC) and of streamlit_app.py (metrics OTP and   *)
(* Trips).                                                                 *)
(*                                                                         *)
(* Numbers.  Every metric value is a decimal with at most two places       *)
(* (round(x, 1), round(x, 2), int(x)); a value is held as the integer      *)
(* number of hundredths, so 75.0 is 7500 and the growth threshold 10 is    *)
(* 1000.  Quotients are kept exact as <<numerator, denominator>> until     *)
(* they are rounded or compared.                                           *)
(***************************************************************************)
EXTENDS Integers, Sequences, FiniteSets, TLC

VARIABLES
    module,      \* which copy of the builder runs: "streamlit_app" or "data_utils"
    df,          \* the dataset: a sequence of rows (column name -> scalar)
    dimensions,  \* the ordered dimension selection
    metric,      \* the metric selector
    pc,          \* "ready" before build_hierarchy is called, "built" after
    tree,        \* the root node build_hierarchy returned
    raised,      \* whether the call ended in an exception
    color_in,    \* the arguments of a direct call of get_color
    color_out,   \* what that call returned ("" before it)
    missing,     \* the columns the DataFrame does not have
    renderer,    \* whose create_tree_visualization script runs ("" when none)
    rnodes,      \* the script's node objects, rnodes[i] the one with id i
    scene,       \* what the last render() drew
    tooltip,     \* the id of the node the tooltip shows, 0 when it is hidden
    last,        \* the last load or click handled and whether it called render()
    selection,   \* the nodes marked selected and the last message sent to the host
    page,        \* the host page: the multiselect's value and what the page shows
    insight      \* a call of ai_insights: its arguments, the service, its result

vars == <<module, df, dimensions, metric, pc, tree, raised, color_in, color_out,
          missing, renderer, rnodes, scene, tooltip, last, selection, page, insight>>

\* The host's part of the state.
hvars == <<page, insight>>

\* The renderer's part of the state.
rvars == <<renderer, rnodes, scene, tooltip, last, selection>>

-----------------------------------------------------------------------------
(* Bounds of the explored inputs *)

MaxRows == 3

\* A missing dimension value (None / float NaN in the DataFrame column).
NaN == "NaN"

-----------------------------------------------------------------------------
(* Python / pandas / numpy primitives *)

\* Order of the group keys: DataFrame.groupby sorts the keys (sort=True).
KeyOrder ==
    <<"APAC", "Bronx", "Brooklyn", "EMEA", "East", "Fresh Pond", "Harlem", "LATAM",
      "Manhattan", "West">>

RECURSIVE SumCol(_, _)
\* df[col].sum()
SumCol(data, col) ==
    IF data = <<>> THEN 0 ELSE data[1][col] + SumCol(Tail(data), col)

RECURSIVE SumProd(_, _, _)
\* sum(df[a] * df[b])
SumProd(data, a, b) ==
    IF data = <<>> THEN 0
    ELSE data[1][a] * data[1][b] + SumProd(Tail(data), a, b)

\* Nearest integer to n / d (d > 0), ties to the even neighbour.
RoundHalfEven(n, d) ==
    LET q == n \div d
        r == n % d
    IN  IF 2 * r < d THEN q
        ELSE IF 2 * r > d THEN q + 1
        ELSE IF q % 2 = 0 THEN q ELSE q + 1

\* round(n / d, ndigits) for ndigits in {1, 2}, in hundredths: the nearest
\* decimal with ndigits places.  A quotient exactly halfway between two of
\* them goes to the even one here; on the binary float Python rounds it
\* may go to either neighbour.
py_round(n, d, ndigits) ==
    LET sn == IF d < 0 THEN -n ELSE n
        sd == IF d < 0 THEN -d ELSE d
    IN  IF ndigits = 1 THEN 10 * RoundHalfEven(10 * sn, sd)
        ELSE RoundHalfEven(100 * sn, sd)

\* numpy.average(df[a], weights=df[w]) as the exact quotient; it raises
\* ZeroDivisionError when the weights sum to zero.
np_average(data, a, w) == <<SumProd(data, a, w), SumCol(data, w)>>

np_average_raises(data, w) == SumCol(data, w) = 0

\* min(values), max(values) of a non-empty list
Min(values) ==
    CHOOSE v \in {values[i] : i \in 1..Len(values)} :
        \A j \in 1..Len(values) : v <= values[j]

Max(values) ==
    CHOOSE v \in {values[i] : i \in 1..Len(values)} :
        \A j \in 1..Len(values) : v >= values[j]

\* x >= p / q for an exact quotient x = <<num, den>>, den # 0, q > 0
GeFrac(x, p, q) ==
    IF x[2] > 0 THEN x[1] * q >= p * x[2] ELSE x[1] * q <= p * x[2]

\* list(data.groupby(dim)): the keys in sorted order; a row whose key is
\* missing belongs to no group (groupby's default dropna=True).
groupby_keys(data, dim) ==
    SelectSeq(KeyOrder, LAMBDA k : \E i \in 1..Len(data) : data[i][dim] = k)

groupby_group(data, dim, key) ==
    SelectSeq(data, LAMBDA row : row[dim] = key)

RECURSIVE InsertDesc(_, _)
\* insert node n into the list s, sorted by value descending, after every
\* element whose value is >= n.value
InsertDesc(s, n) ==
    IF s = <<>> THEN <<n>>
    ELSE IF s[1].value >= n.value THEN <<s[1]>> \o InsertDesc(Tail(s), n)
    ELSE <<n>> \o s

\* Mutant: the children are returned in the order the grouping produced.
sorted_not_applied(children) == children

RECURSIVE sorted_by_value_desc(_)
\* sorted(children, key=lambda x: x["value"], reverse=True): stable
sorted_by_value_desc(children) ==
    IF children = <<>> THEN <<>>
    ELSE InsertDesc(sorted_by_value_desc(SubSeq(children, 1, Len(children) - 1)),
                    children[Len(children)])

-----------------------------------------------------------------------------
(* streamlit_app.py *)

\* Mutant: the simple average of OTP, the weights ignored.
app_calculate_metric_unweighted(data, m) ==
    IF m = "OTP"
    THEN IF Len(data) = 0 \/ SumCol(data, "Trips") = 0
         THEN 0
         ELSE py_round(SumCol(data, "OTP"), Len(data), 1)
    ELSE 100 * SumCol(data, "Trips")

app_calculate_metric(data, m) ==
    IF m = "OTP"
    THEN IF Len(data) = 0 \/ SumCol(data, "Trips") = 0
         THEN 0
         ELSE LET avg == np_average(data, "OTP", "Trips")
              IN  py_round(avg[1], avg[2], 1)
    ELSE 100 * SumCol(data, "Trips")

\* Mutant: numpy.average is called without the guard on rows and weights.
app_calculate_metric_raises_unguarded(data, m) ==
    m = "OTP" /\ np_average_raises(data, "Trips")

\* An exception leaves calculate_metric only from numpy.average.
app_calculate_metric_raises(data, m) ==
    /\ m = "OTP"
    /\ ~(Len(data) = 0 \/ SumCol(data, "Trips") = 0)
    /\ np_average_raises(data, "Trips")

\* x > p / q for an exact quotient x = <<num, den>>, den # 0, q > 0
GtFrac(x, p, q) ==
    IF x[2] > 0 THEN x[1] * q > p * x[2] ELSE x[1] * q < p * x[2]

\* Mutant: the bands have exclusive lower bounds.
app_get_color_exclusive(value, min_val, max_val) ==
    LET normalized == IF max_val = min_val THEN <<1, 2>>
                      ELSE <<value - min_val, max_val - min_val>>
    IN  IF GtFrac(normalized, 7, 10) THEN "#1B5E3F"
        ELSE IF GtFrac(normalized, 5, 10) THEN "#2D8B5E"
        ELSE IF GtFrac(normalized, 3, 10) THEN "#F59E0B"
        ELSE "#DC2626"

app_get_color(value, min_val, max_val) ==
    LET normalized == IF max_val = min_val THEN <<1, 2>>
                      ELSE <<value - min_val, max_val - min_val>>
    IN  IF GeFrac(normalized, 7, 10) THEN "#1B5E3F"
        ELSE IF GeFrac(normalized, 5, 10) THEN "#2D8B5E"
        ELSE IF GeFrac(normalized, 3, 10) THEN "#F59E0B"
        ELSE "#DC2626"

-----------------------------------------------------------------------------
(* data_utils.py (streamlit_ncc_sis.py holds the same three functions) *)

\* Mutant: the growth is left a fraction, not multiplied by 100.
calculate_metric_fraction(data, m) ==
    IF Len(data) = 0 THEN 0
    ELSE IF m = "NCC" THEN py_round(SumCol(data, "NCC"), 1, 2)
    ELSE IF m = "NCC_PY" THEN py_round(SumCol(data, "NCC_PY"), 1, 2)
    ELSE IF m = "YoY_Growth"
    THEN LET ncc    == SumCol(data, "NCC")
             ncc_py == SumCol(data, "NCC_PY")
         IN  IF ncc_py # 0 THEN py_round(ncc - ncc_py, ncc_py, 1) ELSE 0
    ELSE IF m = "Avg_NCC" THEN py_round(SumCol(data, "NCC"), Len(data), 2)
    ELSE 0

calculate_metric(data, m) ==
    IF Len(data) = 0 THEN 0
    ELSE IF m = "NCC" THEN py_round(SumCol(data, "NCC"), 1, 2)
    ELSE IF m = "NCC_PY" THEN py_round(SumCol(data, "NCC_PY"), 1, 2)
    ELSE IF m = "YoY_Growth"
    THEN LET ncc    == SumCol(data, "NCC")
             ncc_py == SumCol(data, "NCC_PY")
         IN  IF ncc_py # 0 THEN py_round((ncc - ncc_py) * 100, ncc_py, 1) ELSE 0
    ELSE IF m = "Avg_NCC" THEN py_round(SumCol(data, "NCC"), Len(data), 2)
    ELSE 0

\* Mutant: YoY_Growth is banded by the normalized score like the others.
get_color_normalized_only(value, min_val, max_val, m) ==
    LET normalized == IF max_val = min_val THEN <<1, 2>>
                      ELSE <<value - min_val, max_val - min_val>>
    IN  IF GeFrac(normalized, 7, 10) THEN "#1B5E3F"
        ELSE IF GeFrac(normalized, 5, 10) THEN "#2D8B5E"
        ELSE IF GeFrac(normalized, 3, 10) THEN "#F59E0B"
        ELSE "#DC2626"

get_color(value, min_val, max_val, m) ==
    LET normalized == IF max_val = min_val THEN <<1, 2>>
                      ELSE <<value - min_val, max_val - min_val>>
    IN  IF m = "YoY_Growth"
        THEN IF value >= 1000 THEN "#1B5E3F"
             ELSE IF value >= 0 THEN "#2D8B5E"
             ELSE IF value >= -1000 THEN "#F59E0B"
             ELSE "#DC2626"
        ELSE IF GeFrac(normalized, 7, 10) THEN "#1B5E3F"
        ELSE IF GeFrac(normalized, 5, 10) THEN "#2D8B5E"
        ELSE IF GeFrac(normalized, 3, 10) THEN "#F59E0B"
        ELSE "#DC2626"

-----------------------------------------------------------------------------
(* build_hierarchy, the same code in both files; mod selects whose          *)
(* calculate_metric and get_color it calls.                                 *)

metric_of(mod, data, m) ==
    IF mod = "streamlit_app" THEN app_calculate_metric(data, m)
    ELSE calculate_metric(data, m)

color_of(mod, value, min_val, max_val, m) ==
    IF mod = "streamlit_app" THEN app_get_color(value, min_val, max_val)
    ELSE get_color(value, min_val, max_val, m)

\* Mutant: the range starts at 0 instead of the smallest sibling value.
sibling_range_from_zero(values) ==
    IF Len(values) > 0 THEN <<0, Max(values)>> ELSE <<0, 100>>

\* min_val, max_val = (min(values), max(values)) if values else (0, 1)
sibling_range(values) ==
    IF Len(values) > 0 THEN <<Min(values), Max(values)>> ELSE <<0, 100>>

\* Mutant: every node carries a "children" key.
children_key_always(next_dims) == TRUE

\* if next_dims: whether the node gets the "children" key
children_key(next_dims) == next_dims # <<>>

RECURSIVE build_level(_, _, _, _)

\* Mutant: the recursion into the remaining dimensions is left out.
nested_children_none(mod, group, next_dims, m) == <<>>

\* if next_dims: node["children"] = build_level(group, next_dims)
\* (a node without the "children" key has has_children = FALSE and holds <<>>)
nested_children(mod, group, next_dims, m) ==
    IF next_dims # <<>> THEN build_level(mod, group, next_dims, m) ELSE <<>>

build_level(mod, data, dims_remaining, m) ==
    IF dims_remaining = <<>> \/ Len(data) = 0 THEN <<>>
    ELSE
      LET current_dim == dims_remaining[1]
          next_dims   == Tail(dims_remaining)
          keys        == groupby_keys(data, current_dim)
          groups      == [i \in 1..Len(keys) |->
                             groupby_group(data, current_dim, keys[i])]
          values      == [i \in 1..Len(keys) |-> metric_of(mod, groups[i], m)]
          min_val     == sibling_range(values)[1]
          max_val     == sibling_range(values)[2]
          children    == [i \in 1..Len(keys) |->
                            [name         |-> keys[i],   \* str(name): the key is a string
                             dimension    |-> current_dim,
                             value        |-> values[i],
                             color        |-> color_of(mod, values[i], min_val, max_val, m),
                             count        |-> Len(groups[i]),
                             has_children |-> children_key(next_dims),
                             children     |-> nested_children(mod, groups[i], next_dims, m)]]
      IN  sorted_by_value_desc(children)

RECURSIVE SumOfValues(_)
SumOfValues(nodes) ==
    IF nodes = <<>> THEN 0 ELSE nodes[1].value + SumOfValues(Tail(nodes))

\* Mutant: the root's value is summed over its children.
build_hierarchy_from_children(mod, data, dims, m) ==
    [name         |-> IF mod = "streamlit_app" THEN "Total" ELSE "Total NCC",
     dimension    |-> IF mod = "streamlit_app" THEN "All Data" ELSE "Total",
     value        |-> SumOfValues(build_level(mod, data, dims, m)),
     color        |-> "#1B5E3F",
     count        |-> Len(data),
     has_children |-> TRUE,
     children     |-> build_level(mod, data, dims, m)]

build_hierarchy(mod, data, dims, m) ==
    [name         |-> IF mod = "streamlit_app" THEN "Total" ELSE "Total NCC",
     dimension    |-> IF mod = "streamlit_app" THEN "All Data" ELSE "Total",
     value        |-> metric_of(mod, data, m),
     color        |-> "#1B5E3F",
     count        |-> Len(data),
     has_children |-> TRUE,
     children     |-> build_level(mod, data, dims, m)]

RECURSIVE build_raises(_, _, _, _)
\* Whether some calculate_metric call of build_hierarchy raises: the call on
\* the whole dataset and the calls on every group of every level.
build_raises(mod, data, dims_remaining, m) ==
    \/ mod = "streamlit_app" /\ app_calculate_metric_raises(data, m)
    \/ /\ dims_remaining # <<>>
       /\ \E k \in {KeyOrder[i] : i \in 1..Len(KeyOrder)} :
            /\ groupby_group(data, dims_remaining[1], k) # <<>>
            /\ build_raises(mod, groupby_group(data, dims_remaining[1], k),
                            Tail(dims_remaining), m)

\* df[col] raises KeyError for a column the DataFrame does not have.  The
\* columns calculate_metric of streamlit_app.py reads, in its order: Trips
\* (unless OTP is asked of zero rows), then OTP when the weights do not sum
\* to zero.
app_calculate_metric_key_error(data, m, absent) ==
    IF m = "OTP"
    THEN /\ Len(data) # 0
         /\ \/ "Trips" \in absent
            \/ SumCol(data, "Trips") # 0 /\ "OTP" \in absent
    ELSE "Trips" \in absent

\* The columns calculate_metric of data_utils.py reads: none of zero rows,
\* none for a metric it does not know.
calculate_metric_key_error(data, m, absent) ==
    /\ Len(data) # 0
    /\ \/ m = "NCC" /\ "NCC" \in absent
       \/ m = "NCC_PY" /\ "NCC_PY" \in absent
       \/ m = "YoY_Growth" /\ ("NCC" \in absent \/ "NCC_PY" \in absent)
       \/ m = "Avg_NCC" /\ "NCC" \in absent

RECURSIVE build_key_error(_, _, _, _, _)
\* Whether build_hierarchy ends in a KeyError: in calculate_metric on the
\* whole dataset or on a group, or in data.groupby(current_dim), which is
\* reached only with a dimension left and at least one row.
build_key_error(mod, data, dims_remaining, m, absent) ==
    \/ IF mod = "streamlit_app" THEN app_calculate_metric_key_error(data, m, absent)
       ELSE calculate_metric_key_error(data, m, absent)
    \/ /\ dims_remaining # <<>>
       /\ Len(data) # 0
       /\ \/ dims_remaining[1] \in absent
          \/ \E k \in {KeyOrder[i] : i \in 1..Len(KeyOrder)} :
                /\ groupby_group(data, dims_remaining[1], k) # <<>>
                /\ build_key_error(mod, groupby_group(data, dims_remaining[1], k),
                                   Tail(dims_remaining), m, absent)

-----------------------------------------------------------------------------
(* The renderer: the script create_tree_visualization returns                *)
(* (tree_visualization.py; streamlit_ncc_sis.py holds the same script) and   *)
(* the script of streamlit_app.py.  r selects whose script runs.             *)
(*                                                                           *)
(* The script's node objects are held in a sequence in the order processNode *)
(* numbers them, so the object with id i is at index i; children and parent  *)
(* are ids, 0 for no parent.  x is in pixels.  y is in quarter pixels: it is *)
(* a multiple of nodeHeight + siblingGap or a midpoint of two such values,   *)
(* and the trees explored are at most three levels deep.  x = y = -1 stands  *)
(* for the undefined coordinates of a node no layout has visited.            *)

config(r) ==
    IF r = "streamlit_app"
    THEN [nodeWidth |-> 160, nodeHeight |-> 65, levelGap |-> 200, siblingGap |-> 12,
          barWidth |-> 80, barHeight |-> 6,
          margin |-> [top |-> 40, right |-> 160, bottom |-> 40, left |-> 60]]
    ELSE [nodeWidth |-> 170, nodeHeight |-> 68, levelGap |-> 210, siblingGap |-> 12,
          barWidth |-> 90, barHeight |-> 6,
          margin |-> [top |-> 40, right |-> 160, bottom |-> 40, left |-> 60]]

\* Pixels as quarter pixels.
Quarters(px) == 4 * px

RECURSIVE subtree_size(_)
RECURSIVE forest_size(_)
\* How many ids processNode hands out in the subtree of `node`.
subtree_size(node) == 1 + forest_size(node.children)

forest_size(children) ==
    IF children = <<>> THEN 0
    ELSE subtree_size(children[1]) + forest_size(Tail(children))

\* Mutant: the first level starts expanded as well.
initially_expanded_two_levels(depth) == depth < 2

\* node.expanded = depth < 1
initially_expanded(depth) == depth < 1

RECURSIVE processNode(_, _, _, _)
RECURSIVE processChildren(_, _, _, _)
\* processNode(node, depth) with the counter at id - 1 and child.parent set
\* by the caller: the objects of the subtree, in the order of their ids.
processNode(node, depth, parent, id) ==
    <<[id           |-> id,
       name         |-> node.name,
       dimension    |-> node.dimension,
       value        |-> node.value,
       color        |-> node.color,
       count        |-> node.count,
       has_children |-> node.has_children,
       children     |-> [i \in 1..Len(node.children) |->
                            id + 1 + forest_size(SubSeq(node.children, 1, i - 1))],
       parent       |-> parent,
       depth        |-> depth,
       expanded     |-> initially_expanded(depth),
       x            |-> -1,
       y            |-> -1]>>
    \o processChildren(node.children, depth + 1, id, id + 1)

processChildren(children, depth, parent, id) ==
    IF children = <<>> THEN <<>>
    ELSE processNode(children[1], depth, parent, id)
         \o processChildren(Tail(children), depth, parent,
                            id + subtree_size(children[1]))

\* hasChildren = node.children && node.children.length > 0
hasChildren(ns, n) == Len(ns[n].children) > 0

\* Mutant: a parent is put level with its first child.
parent_y_first_child(first_y, last_y) == first_y

\* n.y = (firstChild.y + lastChild.y) / 2
parent_y(first_y, last_y) == (first_y + last_y) \div 2

\* Mutant: the children are put below their parent, in its column.
child_x_same_column(r, x) == x

\* layoutNode(child, x + config.levelGap)
child_x(r, x) == x + config(r).levelGap

\* Mutant: the cursor advances by the height of a card, without the gap.
next_offset_without_gap(r, yOffset) == yOffset + Quarters(config(r).nodeHeight)

\* yOffset += config.nodeHeight + config.siblingGap
next_offset(r, yOffset) ==
    yOffset + Quarters(config(r).nodeHeight + config(r).siblingGap)

RECURSIVE layoutNode(_, _, _, _, _)
RECURSIVE layoutChildren(_, _, _, _, _)
\* layoutNode(n, x) of calculateLayout with the cursor at yOffset: the
\* objects and the cursor afterwards.
layoutNode(r, ns, n, x, yOffset) ==
    LET placed == [ns EXCEPT ![n].x = x] IN
    IF ns[n].expanded /\ hasChildren(ns, n)
    THEN LET done       == layoutChildren(r, placed, ns[n].children,
                                          child_x(r, x), yOffset)
             firstChild == ns[n].children[1]
             lastChild  == ns[n].children[Len(ns[n].children)]
         IN  [ns      |-> [done.ns EXCEPT
                              ![n].y = parent_y(done.ns[firstChild].y, done.ns[lastChild].y)],
              yOffset |-> done.yOffset]
    ELSE [ns      |-> [placed EXCEPT ![n].y = yOffset],
          yOffset |-> next_offset(r, yOffset)]

layoutChildren(r, ns, ids, x, yOffset) ==
    IF ids = <<>> THEN [ns |-> ns, yOffset |-> yOffset]
    ELSE LET done == layoutNode(r, ns, ids[1], x, yOffset)
         IN  layoutChildren(r, done.ns, Tail(ids), x, done.yOffset)

\* calculateLayout(root): the objects with their coordinates and the height.
calculateLayout(r, ns) == layoutNode(r, ns, 1, config(r).margin.left, 0)

RECURSIVE getVisibleNodes(_, _)
RECURSIVE visibleNodesOf(_, _)
\* getVisibleNodes(node): the ids pushed, in the order they are pushed.
getVisibleNodes(ns, n) ==
    <<n>> \o (IF ns[n].expanded THEN visibleNodesOf(ns, ns[n].children) ELSE <<>>)

visibleNodesOf(ns, ids) ==
    IF ids = <<>> THEN <<>>
    ELSE getVisibleNodes(ns, ids[1]) \o visibleNodesOf(ns, Tail(ids))

RECURSIVE getVisibleLinks(_, _)
RECURSIVE visibleLinksOf(_, _, _)
\* getVisibleLinks(node): the links pushed, in the order they are pushed.
getVisibleLinks(ns, n) ==
    IF ns[n].expanded THEN visibleLinksOf(ns, n, ns[n].children) ELSE <<>>

visibleLinksOf(ns, n, ids) ==
    IF ids = <<>> THEN <<>>
    ELSE <<[source |-> n, target |-> ids[1]]>>
         \o getVisibleLinks(ns, ids[1])
         \o visibleLinksOf(ns, n, Tail(ids))

\* btnText.textContent, a glyph named by its code points.  The expanded
\* literal of tree_visualization.py is the three characters U+00E2 U+02C6
\* U+2019; the scripts of streamlit_app.py and streamlit_ncc_sis.py hold the
\* minus sign U+2212.
expand_icon(r, expanded) ==
    IF ~expanded THEN "+"
    ELSE IF r = "tree_visualization" THEN "U+00E2 U+02C6 U+2019"
    ELSE "U+2212"

\* if (hasChildren) { ... btnGroup ... }
button_drawn(ns, n) == hasChildren(ns, n)

\* if (hasChildren) { nodeGroup.onclick = ... }
onclick_attached(ns, n) == hasChildren(ns, n)

\* Math.abs(s.value) in tree_visualization.py and streamlit_ncc_sis.py,
\* s.value in streamlit_app.py.
bar_magnitude(r, value) ==
    IF r = "streamlit_app" THEN value
    ELSE IF value < 0 THEN -value ELSE value

\* Mutant: the bar is scaled by the largest sibling alone, value / max.
barFillWidth_value_over_max(r, ns, n) ==
    LET siblings == IF ns[n].parent # 0 THEN ns[ns[n].parent].children ELSE <<n>>
        values   == [i \in 1..Len(siblings) |-> bar_magnitude(r, ns[siblings[i]].value)]
        maxVal   == IF Max(values) = 0 THEN 100 ELSE Max(values)
        scaled   == <<bar_magnitude(r, ns[n].value) * config(r).barWidth, maxVal>>
    IN  IF GeFrac(scaled, 4, 1) THEN scaled ELSE <<4, 1>>

\* barFillWidth, in pixels as an exact quotient <<numerator, denominator>>:
\* Math.max(4, ((value - minVal) / range) * config.barWidth), minVal and
\* maxVal over the node's siblings (the node alone without a parent) and
\* range = maxVal - minVal || 1.
barFillWidth(r, ns, n) ==
    LET siblings == IF ns[n].parent # 0 THEN ns[ns[n].parent].children ELSE <<n>>
        values   == [i \in 1..Len(siblings) |-> bar_magnitude(r, ns[siblings[i]].value)]
        maxVal   == Max(values)
        minVal   == Min(values)
        range    == IF maxVal - minVal = 0 THEN 100 ELSE maxVal - minVal
        scaled   == <<(bar_magnitude(r, ns[n].value) - minVal) * config(r).barWidth, range>>
    IN  IF GeFrac(scaled, 4, 1) THEN scaled ELSE <<4, 1>>

\* One nodeGroup of render(): where it is translated to, whether it has the
\* click handler, the text of its button ("" when it has no button) and
\* the width of its bar fill.
nodeGroup(r, ns, n) ==
    [id        |-> n,
     x         |-> ns[n].x,
     y         |-> ns[n].y,
     clickable |-> onclick_attached(ns, n),
     glyph     |-> IF button_drawn(ns, n) THEN expand_icon(r, ns[n].expanded) ELSE "",
     bar       |-> barFillWidth(r, ns, n)]

\* linkPath(source, target): the start point, the two control points and the
\* end point of the cubic curve, every coordinate in quarter pixels.
linkPath(r, ns, source, target) ==
    LET midX == 2 * ns[source].x + config(r).nodeWidth + 2 * ns[target].x
        sy   == ns[source].y + 2 * config(r).nodeHeight
        ty   == ns[target].y + 2 * config(r).nodeHeight
        sx   == Quarters(ns[source].x + config(r).nodeWidth)
        tx   == Quarters(ns[target].x)
    IN  [M |-> <<sx, sy>>, C1 |-> <<midX, sy>>, C2 |-> <<midX, ty>>, to |-> <<tx, ty>>]

\* The literals of render() that config does not hold: the least height and
\* the width of the svg, in pixels.
canvas(r) ==
    IF r = "streamlit_app" THEN [minHeight |-> 400, totalWidth |-> 1100]
    ELSE [minHeight |-> 500, totalWidth |-> 1200]

\* totalHeight, in quarter pixels:
\* Math.max(minHeight, height + config.margin.top + config.margin.bottom)
totalHeight(r, height) ==
    LET content == height + Quarters(config(r).margin.top + config(r).margin.bottom)
    IN  IF content > Quarters(canvas(r).minHeight) THEN content
        ELSE Quarters(canvas(r).minHeight)

\* Mutant: every object is drawn, whatever is collapsed above it.
nodes_drawn_all(ns) == [i \in 1..Len(ns) |-> i]

\* const nodes = getVisibleNodes(root)
nodes_drawn(ns) == getVisibleNodes(ns, 1)

\* render(): the objects after the layout, and the scene drawn from them.
render(r, ns) ==
    LET laid == calculateLayout(r, ns)
        ids  == nodes_drawn(laid.ns)
        links == getVisibleLinks(laid.ns, 1)
    IN  [ns    |-> laid.ns,
         scene |-> [height      |-> laid.yOffset,
                    totalHeight |-> totalHeight(r, laid.yOffset),
                    totalWidth  |-> canvas(r).totalWidth,
                    nodes       |-> [i \in 1..Len(ids) |-> nodeGroup(r, laid.ns, ids[i])],
                    links       |-> links,
                    paths       |-> [i \in 1..Len(links) |->
                                       linkPath(r, laid.ns, links[i].source,
                                                links[i].target)]]]

\* Mutant: collapsing takes the children out of the node, expanding does not
\* bring them back.
onclick_drop_children(ns, n) ==
    [ns EXCEPT ![n].expanded = ~ns[n].expanded,
               ![n].children = IF ns[n].expanded THEN <<>> ELSE ns[n].children]

RECURSIVE in_subtree(_, _, _)
\* Whether the object m is in the subtree under the object n.
in_subtree(ns, m, n) ==
    /\ ns[m].parent # 0
    /\ \/ ns[m].parent = n
       \/ in_subtree(ns, ns[m].parent, n)

\* Mutant: collapsing a node collapses everything under it as well.
onclick_collapse_subtree(ns, n) ==
    [m \in 1..Len(ns) |->
        IF m = n THEN [ns[m] EXCEPT !.expanded = ~ns[n].expanded]
        ELSE IF ns[n].expanded /\ in_subtree(ns, m, n) THEN [ns[m] EXCEPT !.expanded = FALSE]
        ELSE ns[m]]

\* Mutant: a click only ever expands.
onclick_expand_only(ns, n) == [ns EXCEPT ![n].expanded = TRUE]

\* node.expanded = !node.expanded
onclick(ns, n) == [ns EXCEPT ![n].expanded = ~ns[n].expanded]

-----------------------------------------------------------------------------
(* The explored inputs.  Two families of rows per file: one varies the      *)
(* dimension columns (missing values included) over two measure profiles,   *)
(* the other varies the measure columns (zero weights, zero and unequal     *)
(* prior-period amounts) over complete dimension values.  No aggregate      *)
(* depends on the order of the rows (groupby orders the groups by key, sum  *)
(* and len are order-free), so a dataset is enumerated once per multiset of *)
(* rows, in the order of the row tables below.                              *)

AppShapeRows ==
    [i \in 1..18 |->
        [Division |-> <<"Bronx", "Brooklyn", NaN>>[((i - 1) % 3) + 1],
         Depot    |-> <<"Fresh Pond", "Harlem", NaN>>[(((i - 1) \div 3) % 3) + 1],
         OTP      |-> <<60, 80>>[((i - 1) \div 9) + 1],
         Trips    |-> <<100, 300>>[((i - 1) \div 9) + 1]]]

AppMeasureRows ==
    [i \in 1..12 |->
        [Division |-> <<"Bronx", "Brooklyn">>[((i - 1) % 2) + 1],
         Depot    |-> "Harlem",
         OTP      |-> <<60, 80>>[(((i - 1) \div 2) % 2) + 1],
         Trips    |-> <<0, 100, 300>>[((i - 1) \div 4) + 1]]]

NccShapeRows ==
    [i \in 1..18 |->
        [REGION |-> <<"APAC", "EMEA", NaN>>[((i - 1) % 3) + 1],
         SYSTEM |-> <<"East", "West", NaN>>[(((i - 1) \div 3) % 3) + 1],
         NCC    |-> <<120, 90>>[((i - 1) \div 9) + 1],
         NCC_PY |-> <<100, 100>>[((i - 1) \div 9) + 1]]]

NccMeasureRows ==
    [i \in 1..12 |->
        [REGION |-> <<"APAC", "EMEA">>[((i - 1) % 2) + 1],
         SYSTEM |-> "East",
         NCC    |-> <<50, 120>>[(((i - 1) \div 2) % 2) + 1],
         NCC_PY |-> <<0, 90, 100>>[((i - 1) \div 4) + 1]]]

\* The datasets of at most MaxRows rows over a row table, one per multiset.
Datasets(rows) ==
    UNION {
        {[j \in 1..n |-> rows[s[j]]] :
            s \in {t \in [1..n -> 1..Len(rows)] :
                      \A j \in 1..(n - 1) : t[j] <= t[j + 1]}}
        : n \in 0..MaxRows}

\* Every ordered selection of distinct dimensions (a multiselect's result).
DimensionSeqs(a, b) == {<<>>, <<a>>, <<b>>, <<a, b>>, <<b, a>>}

\* The metric selectors, with one ("Margin") that neither file recognizes.
AppMetrics == {"OTP", "Trips", "Margin"}

NccMetrics == {"NCC", "NCC_PY", "YoY_Growth", "Avg_NCC", "Margin"}

\* The value of `tree` before build_hierarchy has returned.
NoTree ==
    [name |-> "", dimension |-> "", value |-> 0, color |-> "", count |-> 0,
     has_children |-> FALSE, children |-> <<>>]

\* The value of `color_in` when get_color is not called directly.
NoColorCall == [value |-> 0, min_val |-> 0, max_val |-> 0]

\* The value of `scene` before the script has rendered.
NoScene ==
    [height |-> 0, totalHeight |-> 0, totalWidth |-> 0, nodes |-> <<>>, links |-> <<>>,
     paths |-> <<>>]

\* The value of `last` before the script has run.
NoEvent == [event |-> "none", rerender |-> FALSE]

\* The payload of a message to the host, before any is sent.
NoMessage ==
    [name |-> "", dimension |-> "", value |-> 0, count |-> 0, hasChildren |-> FALSE,
     childCount |-> 0]

\* The value of `selection` while nothing has been selected.
NoSelection == [selected |-> {}, message |-> NoMessage]

\* The value of `page` when build_hierarchy is called directly.
NoPage == [selected_dims |-> <<>>, shown |-> ""]

\* The result of an ai_insights call before it has returned.
NoText == [kind |-> "", error |-> ""]

\* The value of `insight` when no ai_insights function is called.
NoInsight == [fn |-> "", path |-> <<>>, service |-> "", text |-> NoText]

\* No page runs and no ai_insights function is called.
HostIdle ==
    /\ page = NoPage
    /\ insight = NoInsight

\* No script runs.
RendererIdle ==
    /\ renderer = ""
    /\ rnodes = <<>>
    /\ scene = NoScene
    /\ tooltip = 0
    /\ last = NoEvent
    /\ selection = NoSelection

-----------------------------------------------------------------------------
(* The state machine: one call of build_hierarchy on the chosen inputs *)

Init ==
    /\ \/ /\ module = "streamlit_app"
          /\ df \in Datasets(AppShapeRows) \cup Datasets(AppMeasureRows)
          /\ dimensions \in DimensionSeqs("Division", "Depot")
          /\ metric \in AppMetrics
       \/ /\ module = "data_utils"
          /\ df \in Datasets(NccShapeRows) \cup Datasets(NccMeasureRows)
          /\ dimensions \in DimensionSeqs("REGION", "SYSTEM")
          /\ metric \in NccMetrics
    /\ pc = "ready"
    /\ tree = NoTree
    /\ raised = FALSE
    /\ color_in = NoColorCall
    /\ color_out = ""
    /\ missing = {}
    /\ RendererIdle
    /\ HostIdle

BuildHierarchy ==
    /\ pc = "ready"
    /\ pc' = "built"
    /\ raised' = \/ build_key_error(module, df, dimensions, metric, missing)
                 \/ build_raises(module, df, dimensions, metric)
    /\ tree' = IF raised' THEN NoTree
               ELSE build_hierarchy(module, df, dimensions, metric)
    /\ UNCHANGED <<module, df, dimensions, metric, color_in, color_out, missing>>
    /\ UNCHANGED rvars
    /\ UNCHANGED hvars

Next == BuildHierarchy

Spec == Init /\ [][Next]_vars

-----------------------------------------------------------------------------
(* A direct call of get_color, on arguments drawn from a grid *)

ColorSteps == 10

\* Multiples of 10.00 and the values one hundredth below them.
ColorValues ==
    {1000 * k : k \in -2..ColorSteps} \cup {1000 * k - 1 : k \in -2..ColorSteps}

ColorRange == {1000 * k : k \in 0..ColorSteps}

InitColor ==
    /\ \/ module = "streamlit_app" /\ metric \in AppMetrics
       \/ module = "data_utils" /\ metric \in NccMetrics
    /\ df = <<>>
    /\ dimensions = <<>>
    /\ pc = "ready"
    /\ tree = NoTree
    /\ raised = FALSE
    /\ color_in \in [value : ColorValues, min_val : ColorRange, max_val : ColorRange]
    /\ color_out = ""
    /\ missing = {}
    /\ RendererIdle
    /\ HostIdle

GetColor ==
    /\ pc = "ready"
    /\ pc' = "colored"
    /\ color_out' = color_of(module, color_in.value, color_in.min_val,
                             color_in.max_val, metric)
    /\ UNCHANGED <<module, df, dimensions, metric, tree, raised, color_in, missing>>
    /\ UNCHANGED rvars
    /\ UNCHANGED hvars

NextColor == GetColor

SpecColor == InitColor /\ [][NextColor]_vars

-----------------------------------------------------------------------------
(* build_hierarchy on a DataFrame that lacks one of the columns *)

AppColumns == {"Division", "Depot", "OTP", "Trips"}

NccColumns == {"REGION", "SYSTEM", "NCC", "NCC_PY"}

InitShape ==
    /\ \/ /\ module = "streamlit_app"
          /\ df \in Datasets(AppMeasureRows)
          /\ dimensions \in DimensionSeqs("Division", "Depot")
          /\ metric \in AppMetrics
          /\ missing \in {{}} \cup {{c} : c \in AppColumns}
       \/ /\ module = "data_utils"
          /\ df \in Datasets(NccMeasureRows)
          /\ dimensions \in DimensionSeqs("REGION", "SYSTEM")
          /\ metric \in NccMetrics
          /\ missing \in {{}} \cup {{c} : c \in NccColumns}
    /\ pc = "ready"
    /\ tree = NoTree
    /\ raised = FALSE
    /\ color_in = NoColorCall
    /\ color_out = ""
    /\ RendererIdle
    /\ HostIdle

NextShape == BuildHierarchy

SpecShape == InitShape /\ [][NextShape]_vars

-----------------------------------------------------------------------------
(* A page: build_hierarchy, then the script on the tree the page embeds,     *)
(* then the pointer events on the node cards it drew.  The rows take three   *)
(* values in the first dimension column and two in the second.               *)

AppRenderRows ==
    [i \in 1..6 |->
        [Division |-> <<"Bronx", "Brooklyn", "Manhattan">>[((i - 1) % 3) + 1],
         Depot    |-> <<"Fresh Pond", "Harlem">>[((i - 1) \div 3) + 1],
         OTP      |-> <<60, 80, 70, 90, 65, 75>>[i],
         Trips    |-> <<100, 300, 200, 100, 300, 200>>[i]]]

NccRenderRows ==
    [i \in 1..6 |->
        [REGION |-> <<"APAC", "EMEA", "LATAM">>[((i - 1) % 3) + 1],
         SYSTEM |-> <<"East", "West">>[((i - 1) \div 3) + 1],
         NCC    |-> <<120, 90, 50, 110, 80, 100>>[i],
         NCC_PY |-> <<100, 100, 100, 100, 100, 100>>[i]]]

InitRender ==
    /\ renderer \in {"tree_visualization", "streamlit_app"}
    /\ module = IF renderer = "streamlit_app" THEN "streamlit_app" ELSE "data_utils"
    /\ \/ /\ renderer = "streamlit_app"
          /\ df \in Datasets(AppRenderRows)
          /\ dimensions \in DimensionSeqs("Division", "Depot")
          /\ metric = "OTP"
       \/ /\ renderer = "tree_visualization"
          /\ df \in Datasets(NccRenderRows)
          /\ dimensions \in DimensionSeqs("REGION", "SYSTEM")
          /\ metric = "YoY_Growth"
    /\ pc = "ready"
    /\ tree = NoTree
    /\ raised = FALSE
    /\ color_in = NoColorCall
    /\ color_out = ""
    /\ missing = {}
    /\ rnodes = <<>>
    /\ scene = NoScene
    /\ tooltip = 0
    /\ last = NoEvent
    /\ selection = NoSelection
    /\ HostIdle

\* root = processNode(data, 0); render();
LoadRenderer ==
    /\ pc = "built"
    /\ ~raised
    /\ renderer # ""
    /\ LET out == render(renderer, processNode(tree, 0, 0, 1))
       IN  /\ rnodes' = out.ns
           /\ scene' = out.scene
    /\ pc' = "rendered"
    /\ last' = [event |-> "load", rerender |-> TRUE]
    /\ UNCHANGED <<module, df, dimensions, metric, tree, raised, color_in, color_out,
                   missing, renderer, tooltip, selection>>
    /\ UNCHANGED hvars

\* A click on the i-th card drawn: its onclick handler, if it has one.
Click(i) ==
    /\ pc = "rendered"
    /\ i \in 1..Len(scene.nodes)
    /\ IF scene.nodes[i].clickable
       THEN LET out == render(renderer, onclick(rnodes, scene.nodes[i].id))
            IN  /\ rnodes' = out.ns
                /\ scene' = out.scene
                /\ last' = [event |-> "click", rerender |-> TRUE]
       ELSE /\ UNCHANGED <<rnodes, scene>>
            /\ last' = [event |-> "click", rerender |-> FALSE]
    /\ UNCHANGED <<module, df, dimensions, metric, pc, tree, raised, color_in,
                   color_out, missing, renderer, tooltip, selection>>
    /\ UNCHANGED hvars

\* The pointer enters the i-th card drawn: onmouseenter shows its tooltip.
MouseEnter(i) ==
    /\ pc = "rendered"
    /\ i \in 1..Len(scene.nodes)
    /\ tooltip' = scene.nodes[i].id
    /\ UNCHANGED <<module, df, dimensions, metric, pc, tree, raised, color_in,
                   color_out, missing, renderer, rnodes, scene, last, selection>>
    /\ UNCHANGED hvars

\* The pointer leaves the i-th card drawn: onmouseleave hides the tooltip.
MouseLeave(i) ==
    /\ pc = "rendered"
    /\ i \in 1..Len(scene.nodes)
    /\ tooltip = scene.nodes[i].id
    /\ tooltip' = 0
    /\ UNCHANGED <<module, df, dimensions, metric, pc, tree, raised, color_in,
                   color_out, missing, renderer, rnodes, scene, last, selection>>
    /\ UNCHANGED hvars

ClickCard == \E i \in 1..Len(scene.nodes) : Click(i)

EnterCard == \E i \in 1..Len(scene.nodes) : MouseEnter(i)

LeaveCard == \E i \in 1..Len(scene.nodes) : MouseLeave(i)

NextRender ==
    \/ BuildHierarchy
    \/ LoadRenderer
    \/ ClickCard
    \/ EnterCard
    \/ LeaveCard

SpecRender == InitRender /\ [][NextRender]_vars

-----------------------------------------------------------------------------
(* Node selection.  No script of src/ handles a double click or sends       *)
(* anything to its host; the variants with node analysis, whose host side   *)
(* is ai_insights.py and data_utils.get_child_nodes, are not among the      *)
(* sources.  The double-activation handler below is written from the        *)
(* specification's description of it (section 4.2); everything else of the  *)
(* "node_analysis" script is the script of tree_visualization.py.           *)

\* Mutant: the node is added to the selection, the prior one is kept.
select_node_keep_prior(selected, n) == selected \cup {n}

\* The node becomes the sole selected node.
select_node(selected, n) == {n}

\* The payload of the selection event for the node n.
selection_event(ns, n) ==
    [name        |-> ns[n].name,
     dimension   |-> ns[n].dimension,
     value       |-> ns[n].value,
     count       |-> ns[n].count,
     hasChildren |-> Len(ns[n].children) > 0,
     childCount  |-> Len(ns[n].children)]

InitSelect ==
    /\ renderer = "node_analysis"
    /\ module = "data_utils"
    /\ df \in Datasets(NccRenderRows)
    /\ dimensions \in DimensionSeqs("REGION", "SYSTEM")
    /\ metric = "NCC"
    /\ pc = "ready"
    /\ tree = NoTree
    /\ raised = FALSE
    /\ color_in = NoColorCall
    /\ color_out = ""
    /\ missing = {}
    /\ rnodes = <<>>
    /\ scene = NoScene
    /\ tooltip = 0
    /\ last = NoEvent
    /\ selection = NoSelection
    /\ HostIdle

\* A double activation of the i-th card drawn: the node is selected, the
\* event is sent, and the scene is drawn again.
DoubleActivate(i) ==
    /\ pc = "rendered"
    /\ i \in 1..Len(scene.nodes)
    /\ selection' = [selected |-> select_node(selection.selected, scene.nodes[i].id),
                     message  |-> selection_event(rnodes, scene.nodes[i].id)]
    /\ LET out == render(renderer, rnodes)
       IN  /\ rnodes' = out.ns
           /\ scene' = out.scene
    /\ last' = [event |-> "dblclick", rerender |-> TRUE]
    /\ UNCHANGED <<module, df, dimensions, metric, pc, tree, raised, color_in,
                   color_out, missing, renderer, tooltip>>
    /\ UNCHANGED hvars

DoubleActivateCard == \E i \in 1..Len(scene.nodes) : DoubleActivate(i)

NextSelect ==
    \/ BuildHierarchy
    \/ LoadRenderer
    \/ ClickCard
    \/ DoubleActivateCard

SpecSelect == InitSelect /\ [][NextSelect]_vars

-----------------------------------------------------------------------------
(* The host pages: main() of streamlit_app.py and of streamlit_ncc_sis.py.  *)
(* Streamlit runs main() from the top when the page opens and again after   *)
(* every change of a widget, so each action below is one whole run: the     *)
(* widgets return their values, the session state is updated, the tree is   *)
(* built and handed to components.html, whose frame runs the script.        *)
(* dimensions is st.session_state.selected_dimensions, metric is the value  *)
(* of the metric selectbox, df is the frame handed to build_hierarchy (the  *)
(* mock data of streamlit_app.py, filtered_df of streamlit_ncc_sis.py),     *)
(* page.selected_dims is the value of the multiselect and page.shown is     *)
(* what the page displays.  build_hierarchy, calculate_metric and get_color *)
(* of streamlit_ncc_sis.py (184-267) are those of data_utils.py statement   *)
(* for statement, so module "data_utils" stands for them.  The configured   *)
(* dimension list is modelled by its first two entries.                     *)

\* DATA_CONFIG["dimensions"], the first two.
configured_dimensions(r) ==
    IF r = "streamlit_app" THEN <<"Division", "Depot">> ELSE <<"REGION", "SYSTEM">>

\* list(DATA_CONFIG["metrics"].keys()), the first and one more.
configured_metrics(r) ==
    IF r = "streamlit_app" THEN <<"OTP", "Trips">> ELSE <<"NCC", "YoY_Growth">>

\* The rows generate_mock_data() or load_data() returns.
page_table(r) ==
    [j \in 1..MaxRows |-> IF r = "streamlit_app" THEN AppRenderRows[j]
                          ELSE NccRenderRows[j]]

\* df[mask]: the rows a boolean mask keeps, in order.
filtered(data, keep) ==
    LET F[i \in 0..Len(data)] ==
            IF i = 0 THEN <<>>
            ELSE IF i \in keep THEN Append(F[i - 1], data[i]) ELSE F[i - 1]
    IN  F[Len(data)]

\* The frames main() can hand to build_hierarchy: streamlit_app.py passes
\* the whole table, streamlit_ncc_sis.py the rows of the chosen scenario,
\* years and months.
page_frames(r) ==
    IF r = "streamlit_app" THEN {page_table(r)}
    ELSE {filtered(page_table(r), keep) : keep \in SUBSET (1..MaxRows)}

\* What the multiselect can return: what it returned before, or an ordered
\* choice of the options.
multiselect_values(r) ==
    DimensionSeqs(configured_dimensions(r)[1], configured_dimensions(r)[2])

\* Mutant: the widget's value is stored whatever it is.
store_selection_always(stored, selected_dims) == selected_dims

\* if selected_dims: st.session_state.selected_dimensions = selected_dims
store_selection(stored, selected_dims) ==
    IF selected_dims # <<>> THEN selected_dims ELSE stored

\* The condition of the tree branch of main().
tree_branch(r, stored, data) ==
    IF r = "streamlit_app" THEN stored # <<>>
    ELSE stored # <<>> /\ Len(data) > 0

InitPage ==
    /\ renderer \in {"streamlit_app", "streamlit_ncc_sis"}
    /\ module = IF renderer = "streamlit_app" THEN "streamlit_app" ELSE "data_utils"
    /\ df \in page_frames(renderer) \ {<<>>}
    /\ dimensions = configured_dimensions(renderer)
    /\ metric = configured_metrics(renderer)[1]
    /\ pc = "ready"
    /\ tree = NoTree
    /\ raised = FALSE
    /\ color_in = NoColorCall
    /\ color_out = ""
    /\ missing = {}
    /\ rnodes = <<>>
    /\ scene = NoScene
    /\ tooltip = 0
    /\ last = NoEvent
    /\ selection = NoSelection
    /\ HostIdle

\* One run of main() in which the multiselect returns selected_dims, the
\* metric selectbox m and the filters leave the frame data.  A frame whose
\* document is the one already displayed may be kept as it is or loaded
\* again: that is the browser's choice, not the script's.
main(selected_dims, m, data) ==
    LET stored == store_selection(dimensions, selected_dims)
        shows  == tree_branch(renderer, stored, data)
        fails  == shows /\ build_raises(module, data, stored, m)
        built  == build_hierarchy(module, data, stored, m)
        same   == page.shown = "tree" /\ built = tree /\ m = metric
    IN  /\ dimensions' = stored
        /\ metric' = m
        /\ df' = data
        /\ raised' = fails
        /\ IF fails
           THEN /\ tree' = NoTree
                /\ rnodes' = <<>>
                /\ scene' = NoScene
                /\ pc' = "failed"
                /\ page' = [selected_dims |-> selected_dims, shown |-> "exception"]
                /\ last' = [event |-> "run", rerender |-> FALSE]
           ELSE IF shows
           THEN /\ tree' = built
                /\ pc' = "rendered"
                /\ page' = [selected_dims |-> selected_dims, shown |-> "tree"]
                /\ \E reload \in (IF same THEN {TRUE, FALSE} ELSE {TRUE}) :
                      /\ last' = [event |-> "run", rerender |-> reload]
                      /\ IF reload
                         THEN LET out == render(renderer, processNode(built, 0, 0, 1))
                              IN  /\ rnodes' = out.ns
                                  /\ scene' = out.scene
                         ELSE UNCHANGED <<rnodes, scene>>
           ELSE /\ tree' = NoTree
                /\ rnodes' = <<>>
                /\ scene' = NoScene
                /\ pc' = "warned"
                /\ page' = [selected_dims |-> selected_dims, shown |-> "warning"]
                /\ last' = [event |-> "run", rerender |-> FALSE]
        /\ UNCHANGED <<module, color_in, color_out, missing, renderer, tooltip,
                       selection, insight>>

\* The page is opened: every widget returns its default.
OpenPage ==
    /\ pc = "ready"
    /\ main(dimensions, metric, df)

\* The user picks another metric.
SelectMetric ==
    /\ pc \in {"rendered", "warned", "failed"}
    /\ \E i \in 1..Len(configured_metrics(renderer)) :
          /\ configured_metrics(renderer)[i] # metric
          /\ main(page.selected_dims, configured_metrics(renderer)[i], df)

\* The user changes the dimension multiselect: adds, removes or reorders
\* levels, or removes the last one.
SelectDimensions ==
    /\ pc \in {"rendered", "warned", "failed"}
    /\ \E selected_dims \in multiselect_values(renderer) :
          /\ selected_dims # page.selected_dims
          /\ main(selected_dims, metric, df)

\* The user changes the scenario, the years or the months.
SelectFilter ==
    /\ pc \in {"rendered", "warned", "failed"}
    /\ \E data \in page_frames(renderer) :
          /\ data # df
          /\ main(page.selected_dims, metric, data)

NextPage ==
    \/ OpenPage
    \/ SelectMetric
    \/ SelectDimensions
    \/ SelectFilter
    \/ ClickCard

SpecPage == InitPage /\ [][NextPage]_vars

-----------------------------------------------------------------------------
(* Reading a built tree *)

RECURSIVE Located(_, _)
\* Every node below (and including) `node`, with the names on its path from
\* the root.
Located(node, path) ==
    {[node |-> node, path |-> path]} \cup
    UNION {Located(node.children[i], Append(path, node.children[i].name)) :
              i \in 1..Len(node.children)}

\* The rows matching a path of dimension-value equality filters.
Matched(data, dims, path) ==
    SelectSeq(data, LAMBDA row : \A i \in 1..Len(path) : row[dims[i]] = path[i])

RECURSIVE SumCounts(_)
SumCounts(children) ==
    IF children = <<>> THEN 0 ELSE children[1].count + SumCounts(Tail(children))

RECURSIVE Depth(_)
\* Number of nodes on the longest path from `node` down to a leaf.
Depth(node) ==
    LET below == {Depth(node.children[i]) : i \in 1..Len(node.children)}
    IN  1 + (IF below = {} THEN 0 ELSE CHOOSE d \in below : \A e \in below : e <= d)

Built == pc = "built" /\ ~raised

TreeNodes == Located(tree, <<>>)

-----------------------------------------------------------------------------
(* ai_insights.py: a narrative asked of the Cortex service for a node of    *)
(* the built tree.  The prompt is put together before the try block from    *)
(* fields every built node has (name, dimension, value, count, children)    *)
(* and from sums guarded against a zero divisor; what the service does with *)
(* it is the service's outcome, drawn from ServiceOutcomes.                 *)

\* What the service does: it answers with a row, it answers with no row,
\* get_active_session() raises, session.sql(...).collect() raises, or the
\* row has no RESPONSE column.
ServiceOutcomes == {"response", "empty", "no_session", "sql_error", "no_column"}

\* The statement that raises for an outcome of the service, "" for none.
raising_statement(service) ==
    CASE service = "no_session" -> "get_active_session"
      [] service = "sql_error"  -> "collect"
      [] service = "no_column"  -> "result"
      [] OTHER                  -> ""

\* Mutant: the session is fetched before the try block, as load_data does.
in_try_without_session(statement) == statement \in {"collect", "result"}

\* The statements between try: and except Exception.
in_try(statement) == statement \in {"get_active_session", "collect", "result"}

\* try: ... return result[0]['RESPONSE'] if result else "No response generated"
\* except Exception as e: return f"{unable}{str(e)}"
cortex_complete(service, unable) ==
    IF raising_statement(service) # ""
    THEN IF in_try(raising_statement(service))
         THEN [raised |-> FALSE, text |-> [kind |-> unable, error |-> service]]
         ELSE [raised |-> TRUE, text |-> NoText]
    ELSE IF service = "empty"
         THEN [raised |-> FALSE, text |-> [kind |-> "No response generated", error |-> ""]]
         ELSE [raised |-> FALSE, text |-> [kind |-> "RESPONSE", error |-> ""]]

RECURSIVE collect_children(_, _)
RECURSIVE collect_each(_, _)
\* get_child_nodes(node): collect_children(n, depth) with max_depth = 2.
collect_children(n, depth) ==
    IF depth > 2 \/ n.children = <<>> THEN <<>> ELSE collect_each(n.children, depth)

collect_each(children, depth) ==
    IF children = <<>> THEN <<>>
    ELSE <<[name      |-> children[1].name,
            dimension |-> children[1].dimension,
            value     |-> children[1].value,
            count     |-> children[1].count,
            depth     |-> depth]>>
         \o collect_children(children[1], depth + 1)
         \o collect_each(Tail(children), depth)

get_child_nodes(node) == collect_children(node, 1)

generate_ai_summary(node_data, service) ==
    cortex_complete(service, "Unable to generate insights: ")

generate_child_insights(node_data, child_nodes, service) ==
    IF child_nodes = <<>>
    THEN [raised |-> FALSE,
          text   |-> [kind |-> "No child segments available for analysis.", error |-> ""]]
    ELSE cortex_complete(service, "Unable to generate child insights: ")

InitInsights ==
    /\ module = "data_utils"
    /\ df \in Datasets(NccRenderRows)
    /\ dimensions \in DimensionSeqs("REGION", "SYSTEM")
    /\ metric = "NCC"
    /\ pc = "ready"
    /\ tree = NoTree
    /\ raised = FALSE
    /\ color_in = NoColorCall
    /\ color_out = ""
    /\ missing = {}
    /\ RendererIdle
    /\ HostIdle

\* generate_ai_summary(node_data, filtered_df, metric_label) for a node of
\* the tree.
GenerateAiSummary ==
    /\ pc = "built"
    /\ ~raised
    /\ \E ln \in TreeNodes, service \in ServiceOutcomes :
          LET out == generate_ai_summary(ln.node, service)
          IN  /\ raised' = out.raised
              /\ insight' = [fn |-> "generate_ai_summary", path |-> ln.path,
                             service |-> service, text |-> out.text]
    /\ pc' = "answered"
    /\ UNCHANGED <<module, df, dimensions, metric, tree, color_in, color_out, missing,
                   page>>
    /\ UNCHANGED rvars

\* generate_child_insights(node_data, get_child_nodes(node_data), metric_label)
\* for a node of the tree.
GenerateChildInsights ==
    /\ pc = "built"
    /\ ~raised
    /\ \E ln \in TreeNodes, service \in ServiceOutcomes :
          LET out == generate_child_insights(ln.node, get_child_nodes(ln.node), service)
          IN  /\ raised' = out.raised
              /\ insight' = [fn |-> "generate_child_insights", path |-> ln.path,
                             service |-> service, text |-> out.text]
    /\ pc' = "answered"
    /\ UNCHANGED <<module, df, dimensions, metric, tree, color_in, color_out, missing,
                   page>>
    /\ UNCHANGED rvars

NextInsights ==
    \/ BuildHierarchy
    \/ GenerateAiSummary
    \/ GenerateChildInsights

SpecInsights == InitInsights /\ [][NextInsights]_vars

-----------------------------------------------------------------------------
(* C1 *)

\* C1 (as claimed): in the built tree, every node grouped further (fewer path
\* names than selected dimensions) has children whose counts sum to its own
\* count, and the counts of the root's children sum to the number of rows;
\* rows with a missing dimension value are counted in a group of their own.
C1_PartitionInvariant ==
    Built =>
        /\ \A ln \in TreeNodes :
              Len(ln.path) < Len(dimensions) =>
                  SumCounts(ln.node.children) = ln.node.count
        /\ dimensions # <<>> => SumCounts(tree.children) = Len(df)

-----------------------------------------------------------------------------
(* C2 *)

\* C2: in the built tree the children of every node are ordered by value
\* descending: children[i].value >= children[i+1].value.
C2_SortInvariant ==
    Built =>
        \A ln \in TreeNodes :
            \A i \in 1..(Len(ln.node.children) - 1) :
                ln.node.children[i].value >= ln.node.children[i + 1].value

\* A built tree in which the grouping returned the keys in an order that is
\* not the value order: "Brooklyn" (or "EMEA") precedes the smaller key and
\* has the strictly larger value.
C2_Witness ==
    /\ Built
    /\ Len(tree.children) = 2
    /\ tree.children[1].name \in {"Brooklyn", "EMEA"}
    /\ tree.children[1].value > tree.children[2].value

-----------------------------------------------------------------------------
(* C3 *)

\* C3: the value of every node of the built tree is the selected metric over
\* exactly the rows that match the node's path of dimension = name filters
\* (all rows for the root).
C3_ValueFromOwnRows ==
    Built =>
        \A ln \in TreeNodes :
            ln.node.value = metric_of(module, Matched(df, dimensions, ln.path), metric)

\* A built two-level tree of the weighted average whose root value is not the
\* sum of its children's values and in which a first-level node has
\* two children of different value.
C3_Witness ==
    /\ Built
    /\ metric = "OTP"
    /\ Len(dimensions) = 2
    /\ tree.value # SumOfValues(tree.children)
    /\ \E i \in 1..Len(tree.children) :
          /\ Len(tree.children[i].children) = 2
          /\ tree.children[i].children[1].value # tree.children[i].children[2].value

-----------------------------------------------------------------------------
(* C4 *)

\* C4: build_hierarchy on a dataset of zero rows, with any dimension
\* sequence and any metric, raises nothing and returns a root with value 0,
\* count 0 and an empty children list.
C4_ZeroRowSafety ==
    (pc = "built" /\ Len(df) = 0) =>
        /\ ~raised
        /\ tree.value = 0
        /\ tree.count = 0
        /\ tree.has_children
        /\ tree.children = <<>>

\* The call on an empty dataset with two dimensions selected and the
\* weighted-average metric has returned.
C4_Witness ==
    /\ pc = "built"
    /\ Len(df) = 0
    /\ Len(dimensions) = 2
    /\ metric = "OTP"

-----------------------------------------------------------------------------
(* C5 *)

\* The rows a node aggregates, for every node of the built tree.
NodeRows(ln) == Matched(df, dimensions, ln.path)

\* C5 (as claimed): the weighted-average value of every node equals
\* sum(OTP x Trips) / sum(Trips) over its rows exactly, and is 0 when there
\* are no rows or the weights sum to 0.
C5_WeightedAverageExact ==
    (Built /\ module = "streamlit_app" /\ metric = "OTP") =>
        \A ln \in TreeNodes :
            LET rows == NodeRows(ln)
                w    == SumCol(rows, "Trips")
            IN  IF Len(rows) = 0 \/ w = 0
                THEN ln.node.value = 0
                ELSE ln.node.value * w = 100 * SumProd(rows, "OTP", "Trips")

\* C5 (amended): the weighted-average value of every node is
\* sum(OTP x Trips) / sum(Trips) over its rows rounded to one decimal place
\* (a multiple of 0.1 at most 0.05 away from the quotient), and is 0 when
\* there are no rows or the weights sum to 0.
C5_WeightedAverageRounded ==
    (Built /\ module = "streamlit_app" /\ metric = "OTP") =>
        \A ln \in TreeNodes :
            LET rows == NodeRows(ln)
                w    == SumCol(rows, "Trips")
                err  == ln.node.value * w - 100 * SumProd(rows, "OTP", "Trips")
            IN  IF Len(rows) = 0 \/ w = 0
                THEN ln.node.value = 0
                ELSE /\ ln.node.value % 10 = 0
                     /\ err <= 5 * w
                     /\ -err <= 5 * w

\* A node over rows weighing 400 with sum(OTP x Trips) = 30000, such as
\* (60, weight 100) and (80, weight 300), has the value 75.0, and a node of
\* the same tree whose rows all weigh 0 has the value 0.
C5_Witness ==
    /\ Built /\ module = "streamlit_app" /\ metric = "OTP"
    /\ \E ln \in TreeNodes :
          /\ SumCol(NodeRows(ln), "Trips") = 400
          /\ SumProd(NodeRows(ln), "OTP", "Trips") = 30000
          /\ ln.node.value = 7500
    /\ \E ln \in TreeNodes :
          /\ SumCol(NodeRows(ln), "Trips") = 0
          /\ Len(NodeRows(ln)) > 0
          /\ ln.node.value = 0

-----------------------------------------------------------------------------
(* C6 *)

\* C6 (as claimed): the YoY_Growth value of every node equals
\* (A - B) / B * 100 exactly, A and B the sums of NCC and NCC_PY over its
\* rows, and is 0 when B is 0.
C6_GrowthExact ==
    (Built /\ module = "data_utils" /\ metric = "YoY_Growth") =>
        \A ln \in TreeNodes :
            LET A == SumCol(NodeRows(ln), "NCC")
                B == SumCol(NodeRows(ln), "NCC_PY")
            IN  IF B = 0 THEN ln.node.value = 0
                ELSE ln.node.value * B = 100 * 100 * (A - B)

\* C6 (amended): the YoY_Growth value of every node is (A - B) / B * 100
\* rounded to one decimal place (a multiple of 0.1 at most 0.05 away from
\* the quotient), and is 0 when B is 0.
C6_GrowthRounded ==
    (Built /\ module = "data_utils" /\ metric = "YoY_Growth") =>
        \A ln \in TreeNodes :
            LET A    == SumCol(NodeRows(ln), "NCC")
                B    == SumCol(NodeRows(ln), "NCC_PY")
                absB == IF B < 0 THEN -B ELSE B
                err  == ln.node.value * B - 100 * 100 * (A - B)
            IN  IF B = 0 THEN ln.node.value = 0
                ELSE /\ ln.node.value % 10 = 0
                     /\ err <= 5 * absB
                     /\ -err <= 5 * absB

\* One tree holds a node whose prior-period sum is 0 over rows with a
\* non-zero current amount (value 0) and a node with negative growth that
\* is no multiple of 0.1.
C6_Witness ==
    /\ Built /\ module = "data_utils" /\ metric = "YoY_Growth"
    /\ \E ln \in TreeNodes :
          /\ SumCol(NodeRows(ln), "NCC_PY") = 0
          /\ SumCol(NodeRows(ln), "NCC") > 0
          /\ Len(ln.path) > 0
          /\ ln.node.value = 0
    /\ \E ln \in TreeNodes :
          LET B == SumCol(NodeRows(ln), "NCC_PY")
          IN  /\ B # 0
              /\ ln.node.value < 0
              /\ ln.node.value * B # 100 * 100 * (SumCol(NodeRows(ln), "NCC") - B)

-----------------------------------------------------------------------------
(* C7 *)

\* Whether the normalized score of the direct call is at least p / 10:
\* 0.5 when max = min, (value - min) / (max - min) otherwise.
ScoreAtLeast(p) ==
    LET num == color_in.value - color_in.min_val
        den == color_in.max_val - color_in.min_val
    IN  IF den = 0 THEN 5 >= p
        ELSE IF den > 0 THEN 10 * num >= p * den
        ELSE 10 * num <= p * den

\* The call colours a magnitude metric: every call in streamlit_app.py, and
\* every call with a metric other than YoY_Growth in data_utils.py.
MagnitudeCall == module = "streamlit_app" \/ metric # "YoY_Growth"

\* C7: for a magnitude metric get_color returns the band of the normalized
\* score by inclusive lower bounds: >= 0.7 high, >= 0.5 medium-high,
\* >= 0.3 medium-low, else low; max = min counts as a score of 0.5.
C7_NormalizedBands ==
    (pc = "colored" /\ MagnitudeCall) =>
        color_out = IF ScoreAtLeast(7) THEN "#1B5E3F"
                    ELSE IF ScoreAtLeast(5) THEN "#2D8B5E"
                    ELSE IF ScoreAtLeast(3) THEN "#F59E0B"
                    ELSE "#DC2626"

\* get_color(30, 0, 100) of streamlit_app.py, a score exactly on 0.3, has
\* returned the medium-low band.
C7_Witness ==
    /\ pc = "colored"
    /\ module = "streamlit_app"
    /\ color_in = [value |-> 3000, min_val |-> 0, max_val |-> 10000]
    /\ color_out = "#F59E0B"

-----------------------------------------------------------------------------
(* C8 *)

\* C8: for YoY_Growth get_color returns the band of the raw value whatever
\* min and max are: >= 10 high, >= 0 medium-high, >= -10 medium-low, else low.
C8_AbsoluteBands ==
    (pc = "colored" /\ module = "data_utils" /\ metric = "YoY_Growth") =>
        color_out = IF color_in.value >= 1000 THEN "#1B5E3F"
                    ELSE IF color_in.value >= 0 THEN "#2D8B5E"
                    ELSE IF color_in.value >= -1000 THEN "#F59E0B"
                    ELSE "#DC2626"

\* A growth of exactly 10 among siblings ranging from 0 to 100 (a
\* normalized score of 0.1) has been coloured high.
C8_Witness ==
    /\ pc = "colored"
    /\ module = "data_utils"
    /\ metric = "YoY_Growth"
    /\ color_in = [value |-> 1000, min_val |-> 0, max_val |-> 10000]
    /\ color_out = "#1B5E3F"

-----------------------------------------------------------------------------
(* C9 *)

ChildValues(node) == [i \in 1..Len(node.children) |-> node.children[i].value]

\* C9: every node below the root carries the colour get_color gives its
\* value with the minimum and the maximum value of its own sibling set (the
\* children of its parent).
C9_SiblingRange ==
    Built =>
        \A ln \in TreeNodes :
            \A i \in 1..Len(ln.node.children) :
                ln.node.children[i].color =
                    color_of(module, ln.node.children[i].value,
                             Min(ChildValues(ln.node)), Max(ChildValues(ln.node)),
                             metric)

\* A two-level tree of a magnitude metric with a grandchild whose colour is
\* not the one the range of the first-level nodes would give it.
C9_Witness ==
    /\ Built
    /\ MagnitudeCall
    /\ Len(tree.children) = 2
    /\ \E i \in 1..2 :
          /\ Len(tree.children[i].children) = 2
          /\ \E j \in 1..2 :
                tree.children[i].children[j].color #
                    color_of(module, tree.children[i].children[j].value,
                             Min(ChildValues(tree)), Max(ChildValues(tree)), metric)

-----------------------------------------------------------------------------
(* C10 *)

\* Some row has a value (not a missing one) in each of the first k selected
\* dimensions; no row is needed for k = 0.
RowReaches(k) ==
    k = 0 \/ \E i \in 1..Len(df) : \A j \in 1..k : df[i][dimensions[j]] # NaN

\* C10 (as claimed): the depth of the built tree is the number of selected
\* dimensions plus 1.
C10_DepthIsDimsPlusOne ==
    Built => Depth(tree) = Len(dimensions) + 1

\* C10 (amended): the depth of the built tree is 1 plus the largest k, at
\* most the number of selected dimensions, such that some row has a value
\* in each of the first k selected dimensions; so it is the number of
\* dimensions plus 1 exactly when some row has a value in every selected
\* dimension (or none is selected), and 1 for a dataset of zero rows.
C10_DepthByRows ==
    Built =>
        /\ Depth(tree) <= Len(dimensions) + 1
        /\ \A k \in 0..Len(dimensions) : (Depth(tree) >= k + 1) <=> RowReaches(k)

\* A tree over two dimensions and a non-empty dataset has depth 3.
C10_Witness ==
    /\ Built
    /\ Len(df) > 0
    /\ Len(dimensions) = 2
    /\ Depth(tree) = 3

-----------------------------------------------------------------------------
(* C11 *)

\* C11: the root always carries a children list, which is empty when no
\* dimension is selected; a node below the root carries a "children" key
\* exactly when dimensions remain below it, so a node grouped by the last
\* dimension has none.
C11_ChildrenKey ==
    Built =>
        /\ tree.has_children
        /\ dimensions = <<>> => tree.children = <<>>
        /\ \A ln \in TreeNodes :
              Len(ln.path) > 0 =>
                  /\ ln.node.has_children <=> Len(ln.path) < Len(dimensions)
                  /\ ~ln.node.has_children => ln.node.children = <<>>

\* A two-level tree: a first-level node with the key and below it a node
\* grouped by the last dimension without it.
C11_Witness ==
    /\ Built
    /\ Len(dimensions) = 2
    /\ \E ln \in TreeNodes : Len(ln.path) = 1 /\ ln.node.has_children
    /\ \E ln \in TreeNodes : Len(ln.path) = 2 /\ ~ln.node.has_children

-----------------------------------------------------------------------------
(* C12 *)

\* The metric selectors calculate_metric has a branch for.
RecognizedMetrics ==
    IF module = "streamlit_app" THEN {"OTP", "Trips"}
    ELSE {"NCC", "NCC_PY", "YoY_Growth", "Avg_NCC"}

\* C12 (as claimed): build_hierarchy called with a metric selector it does
\* not recognize ends in an exception instead of returning a tree.
C12_UnrecognizedMetricFails ==
    (pc = "built" /\ metric \notin RecognizedMetrics) => raised

-----------------------------------------------------------------------------
(* C13 *)

\* The columns the call needs: those of the selected metric and every
\* selected dimension.
RequiredColumns ==
    {dimensions[i] : i \in 1..Len(dimensions)} \cup
    (CASE metric = "OTP"        -> {"OTP", "Trips"}
       [] metric = "Trips"      -> {"Trips"}
       [] metric = "NCC"        -> {"NCC"}
       [] metric = "NCC_PY"     -> {"NCC_PY"}
       [] metric = "YoY_Growth" -> {"NCC", "NCC_PY"}
       [] metric = "Avg_NCC"    -> {"NCC"}
       [] OTHER                 -> {})

\* C13 (as claimed): when the DataFrame lacks a column the selected metric
\* or a selected dimension needs, build_hierarchy ends in an exception, for
\* every dataset, one of zero rows included.
C13_MissingColumnFails ==
    (pc = "built" /\ RequiredColumns \cap missing # {}) => raised

-----------------------------------------------------------------------------
(* Reading the renderer's state *)

Rendered == pc = "rendered"

\* The ids of the script's node objects; 1 is the root.
Ids == 1..Len(rnodes)

RECURSIVE AncestorsExpanded(_)
\* Whether every ancestor of the object n is expanded (true of the root).
AncestorsExpanded(n) ==
    \/ rnodes[n].parent = 0
    \/ /\ rnodes[rnodes[n].parent].expanded
       /\ AncestorsExpanded(rnodes[n].parent)

\* The ids of the cards in the scene.
DrawnIds == {scene.nodes[i].id : i \in 1..Len(scene.nodes)}

-----------------------------------------------------------------------------
(* C15 *)

\* C15: when the script has loaded and nothing has been clicked yet, the root
\* (the object without a parent, at depth 0) is expanded and every other
\* object is collapsed.
C15_InitialExpansion ==
    (Rendered /\ last.event = "load") =>
        \A n \in Ids :
            /\ rnodes[n].expanded = (rnodes[n].parent = 0)
            /\ (rnodes[n].depth = 0) = (rnodes[n].parent = 0)

\* Just loaded, with a first-level node that has children of its own and
\* starts collapsed.
C15_Witness ==
    /\ Rendered
    /\ last.event = "load"
    /\ \E n \in Ids :
          /\ rnodes[n].depth = 1
          /\ Len(rnodes[n].children) > 0
          /\ ~rnodes[n].expanded

-----------------------------------------------------------------------------
(* C16 *)

\* C16: a click on a drawn node that has children flips that node's expanded
\* flag, leaves every other node's flag as it was, and lays out and draws
\* again; a click on a drawn node without children changes no flag and
\* neither lays out nor draws.
C16_ClickToggles ==
    [][\A i \in 1..Len(scene.nodes) :
          Click(i) =>
              LET n == scene.nodes[i].id IN
              /\ Len(rnodes') = Len(rnodes)
              /\ \A m \in Ids \ {n} : rnodes'[m].expanded = rnodes[m].expanded
              /\ IF Len(rnodes[n].children) > 0
                 THEN /\ rnodes'[n].expanded = ~rnodes[n].expanded
                      /\ last'.rerender
                      /\ scene' = render(renderer, rnodes').scene
                 ELSE /\ rnodes'[n].expanded = rnodes[n].expanded
                      /\ ~last'.rerender
                      /\ scene' = scene
                      /\ rnodes' = rnodes]_vars

\* A node without children has just been clicked, and a first-level node
\* is expanded, which only an earlier click on it does.
C16_Witness ==
    /\ Rendered
    /\ last.event = "click"
    /\ ~last.rerender
    /\ \E n \in Ids : rnodes[n].depth = 1 /\ rnodes[n].expanded

-----------------------------------------------------------------------------
(* C17 *)

\* The objects that are visible: the root, and every object all of whose
\* ancestors are expanded.
VisibleIds == {n \in Ids : AncestorsExpanded(n)}

\* C17: whatever has been clicked, the cards drawn are exactly the visible
\* nodes, each once and at the coordinates the layout gave it, and the links
\* drawn are exactly one per parent-child edge whose child is visible; an
\* object below a collapsed node is neither drawn nor, when it has never been
\* visible, laid out.
C17_DrawnIsVisible ==
    Rendered =>
        /\ DrawnIds = VisibleIds
        /\ Len(scene.nodes) = Cardinality(VisibleIds)
        /\ \A i \in 1..Len(scene.nodes) :
              /\ scene.nodes[i].x = rnodes[scene.nodes[i].id].x
              /\ scene.nodes[i].y = rnodes[scene.nodes[i].id].y
              /\ scene.nodes[i].x >= 0
              /\ scene.nodes[i].y >= 0
        /\ {scene.links[i] : i \in 1..Len(scene.links)}
              = {[source |-> rnodes[n].parent, target |-> n] : n \in VisibleIds \ {1}}
        /\ Len(scene.links) = Cardinality(VisibleIds) - 1
        /\ last.event = "load" =>
              \A n \in Ids \ VisibleIds : rnodes[n].x = -1 /\ rnodes[n].y = -1

\* The root has been collapsed while a first-level node is expanded: that
\* node's children have an expanded parent and are not visible.
C17_Witness ==
    /\ Rendered
    /\ ~rnodes[1].expanded
    /\ \E n \in Ids :
          /\ rnodes[n].depth = 1
          /\ rnodes[n].expanded
          /\ Len(rnodes[n].children) > 0

-----------------------------------------------------------------------------
(* C18 *)

\* A drawn node that has visible children.
ShowsChildren(n) == rnodes[n].expanded /\ Len(rnodes[n].children) > 0

\* The drawn nodes without visible children, in the order they are drawn
\* (depth-first, children in their order).
DrawnLeaves ==
    SelectSeq([i \in 1..Len(scene.nodes) |-> scene.nodes[i].id],
              LAMBDA n : ~ShowsChildren(n))

\* nodeHeight + siblingGap of the running script, in the unit of y.
RowPitch == Quarters(config(renderer).nodeHeight + config(renderer).siblingGap)

\* C18: the k-th drawn node without visible children is at
\* y = (k - 1) * (nodeHeight + siblingGap), the cursor starting at 0; a node
\* with visible children is at the midpoint of its first and its last child;
\* the height returned is the cursor after the last such node.  An expanded
\* root with three childless children is drawn as four cards and three
\* links, the children nodeHeight + siblingGap apart in increasing y and the
\* root level with the middle of the first and the last.
C18_VerticalLayout ==
    Rendered =>
        /\ \A k \in 1..Len(DrawnLeaves) :
              rnodes[DrawnLeaves[k]].y = (k - 1) * RowPitch
        /\ scene.height = Len(DrawnLeaves) * RowPitch
        /\ \A n \in DrawnIds :
              ShowsChildren(n) =>
                  2 * rnodes[n].y
                     = rnodes[rnodes[n].children[1]].y
                       + rnodes[rnodes[n].children[Len(rnodes[n].children)]].y
        /\ (/\ rnodes[1].expanded
            /\ Len(rnodes[1].children) = 3
            /\ \A i \in 1..3 : Len(rnodes[rnodes[1].children[i]].children) = 0)
           => /\ Len(scene.nodes) = 4
              /\ Len(scene.links) = 3
              /\ \A i \in 1..2 :
                    rnodes[rnodes[1].children[i + 1]].y
                       = rnodes[rnodes[1].children[i]].y + RowPitch
              /\ 2 * rnodes[1].y
                    = rnodes[rnodes[1].children[1]].y + rnodes[rnodes[1].children[3]].y

\* An expanded root over exactly three childless children.
C18_Witness ==
    /\ Rendered
    /\ rnodes[1].expanded
    /\ Len(rnodes[1].children) = 3
    /\ Len(rnodes) = 4
    /\ Len(scene.nodes) = 4

-----------------------------------------------------------------------------
(* C19 *)

RECURSIVE SemanticTree(_)
\* The tree the script's objects hold, read by its semantic fields only.
SemanticTree(n) ==
    [name         |-> rnodes[n].name,
     dimension    |-> rnodes[n].dimension,
     value        |-> rnodes[n].value,
     color        |-> rnodes[n].color,
     count        |-> rnodes[n].count,
     has_children |-> rnodes[n].has_children,
     children     |-> [i \in 1..Len(rnodes[n].children) |->
                          SemanticTree(rnodes[n].children[i])]]

\* C19: whatever has been clicked or hovered, the name, dimension, value,
\* count, color and children (membership and order) of every object are
\* those of the tree build_hierarchy produced; the script only adds and
\* changes id, depth, expanded, x, y and parent.
C19_SemanticFieldsKept ==
    Rendered =>
        /\ SemanticTree(1) = tree
        /\ \A n \in Ids :
              DOMAIN rnodes[n] =
                  DOMAIN tree \cup {"id", "depth", "expanded", "x", "y", "parent"}

\* After clicks that collapsed the root and expanded a first-level node,
\* with the tooltip of a hovered card showing.
C19_Witness ==
    /\ Rendered
    /\ last.event = "click"
    /\ tooltip # 0
    /\ ~rnodes[1].expanded
    /\ \E n \in Ids : rnodes[n].depth = 1 /\ rnodes[n].expanded

-----------------------------------------------------------------------------
(* C20 *)

\* C20: a root without children is drawn alone, with no expand/collapse
\* button and no click handler; a card has the button exactly when its node
\* has at least one child, showing '+' while the node is collapsed and the
\* minus sign (U+2212) while it is expanded.
C20_ExpandCollapseGlyph ==
    Rendered =>
        /\ Len(rnodes[1].children) = 0 => Len(scene.nodes) = 1
        /\ \A i \in 1..Len(scene.nodes) :
              LET n == scene.nodes[i].id IN
              /\ scene.nodes[i].clickable = (Len(rnodes[n].children) > 0)
              /\ scene.nodes[i].glyph =
                    IF Len(rnodes[n].children) = 0 THEN ""
                    ELSE IF rnodes[n].expanded THEN "U+2212"
                    ELSE "+"

-----------------------------------------------------------------------------
(* C24 *)

\* C24: whatever has been clicked, every card drawn is at
\* x = depth * levelGap + margin.left, depth being the number of parent
\* links from its node up to the root, so the cards of one depth share
\* their x.
C24_HorizontalPosition ==
    Rendered =>
        \A i \in 1..Len(scene.nodes) :
            LET n == scene.nodes[i].id IN
            /\ scene.nodes[i].x
                  = rnodes[n].depth * config(renderer).levelGap
                    + config(renderer).margin.left
            /\ rnodes[n].depth
                  = IF rnodes[n].parent = 0 THEN 0
                    ELSE rnodes[rnodes[n].parent].depth + 1

\* After clicks, two cards of depth 2 under different parents are drawn.
C24_Witness ==
    /\ Rendered
    /\ last.event = "click"
    /\ \E i, j \in 1..Len(scene.nodes) :
          /\ rnodes[scene.nodes[i].id].depth = 2
          /\ rnodes[scene.nodes[j].id].depth = 2
          /\ rnodes[scene.nodes[i].id].parent # rnodes[scene.nodes[j].id].parent

-----------------------------------------------------------------------------
(* C25 *)

\* C25: every link drawn is a cubic curve from the middle of the parent
\* card's right edge to the middle of the child card's left edge, and its
\* two control points are at the horizontal midpoint of these two end
\* points, the first at the start point's y and the second at the end
\* point's.
C25_LinkSymmetric ==
    Rendered =>
        \A i \in 1..Len(scene.paths) :
            LET path   == scene.paths[i]
                source == rnodes[scene.links[i].source]
                target == rnodes[scene.links[i].target]
            IN  /\ path.M = <<Quarters(source.x + config(renderer).nodeWidth),
                              source.y + 2 * config(renderer).nodeHeight>>
                /\ path.to = <<Quarters(target.x),
                               target.y + 2 * config(renderer).nodeHeight>>
                /\ 2 * path.C1[1] = path.M[1] + path.to[1]
                /\ 2 * path.C2[1] = path.M[1] + path.to[1]
                /\ path.C1[2] = path.M[2]
                /\ path.C2[2] = path.to[2]

-----------------------------------------------------------------------------
(* C26 *)

\* The largest depth of a card drawn.
DeepestDrawn ==
    CHOOSE d \in {rnodes[n].depth : n \in DrawnIds} :
        \A n \in DrawnIds : rnodes[n].depth <= d

\* C26: the height render() gets from the layout is the final value of the
\* cursor, the width of the canvas is the deepest depth drawn times
\* levelGap plus the left and right margins, and every card drawn lies
\* inside the canvas.
C26_CanvasSize ==
    Rendered =>
        /\ scene.height = Len(DrawnLeaves) * RowPitch
        /\ scene.totalWidth
              = DeepestDrawn * config(renderer).levelGap
                + config(renderer).margin.left + config(renderer).margin.right
        /\ \A i \in 1..Len(scene.nodes) :
              /\ scene.nodes[i].x + config(renderer).nodeWidth <= scene.totalWidth
              /\ Quarters(config(renderer).margin.top) + scene.nodes[i].y
                    + Quarters(config(renderer).nodeHeight) <= scene.totalHeight

-----------------------------------------------------------------------------
(* C27 *)

\* |v|
Abs(v) == IF v < 0 THEN -v ELSE v

\* The ids of the siblings of n, n included: the children of its parent, or
\* n alone when it is the root.
SiblingIds(n) ==
    IF rnodes[n].parent = 0 THEN {n}
    ELSE {rnodes[rnodes[n].parent].children[i] :
             i \in 1..Len(rnodes[rnodes[n].parent].children)}

\* The absolute values of the siblings of n.
SiblingAbs(n) == {Abs(rnodes[m].value) : m \in SiblingIds(n)}

MinOf(S) == CHOOSE v \in S : \A w \in S : v <= w

MaxOf(S) == CHOOSE v \in S : \A w \in S : v >= w

RECURSIVE Gcd(_, _)
Gcd(a, b) == IF b = 0 THEN a ELSE Gcd(b, a % b)

\* A quotient of a natural number by a positive one, in lowest terms.
Lowest(a) == <<a[1] \div Gcd(a[1], a[2]), a[2] \div Gcd(a[1], a[2])>>

\* Equality of two such quotients.
SameFrac(a, b) == Lowest(a) = Lowest(b)

-----------------------------------------------------------------------------
(* C28 *)

\* C28: whatever has been clicked, two different cards of the same depth are
\* at least nodeHeight + siblingGap apart in y, and the upper one is the one
\* whose node comes first in the depth-first traversal of the tree (the
\* order in which processNode numbers the nodes); they share their column,
\* so no two cards overlap.
C28_NoOverlap ==
    Rendered =>
        \A i, j \in 1..Len(scene.nodes) :
            LET a == scene.nodes[i]
                b == scene.nodes[j]
            IN  (a.id < b.id /\ rnodes[a.id].depth = rnodes[b.id].depth)
                    => /\ b.y - a.y >= RowPitch
                       /\ a.x = b.x

\* After clicks, two first-level nodes are expanded, so their cards sit at
\* midpoints of their children and cards of depth 2 of both are drawn.
C28_Witness ==
    /\ Rendered
    /\ last.event = "click"
    /\ \E n, m \in Ids :
          /\ n # m
          /\ rnodes[n].depth = 1 /\ rnodes[m].depth = 1
          /\ ShowsChildren(n) /\ ShowsChildren(m)
          /\ n \in DrawnIds /\ m \in DrawnIds

-----------------------------------------------------------------------------
(* C29 *)

\* The expanded flags of the objects `ns`, by id.
Flags(ns) == [m \in 1..Len(ns) |-> ns[m].expanded]

\* C29: from every state the renderer reaches, two clicks in a row on the
\* card of the same node with children give back the expanded flags of
\* every node and the scene (cards, links, coordinates) as they were; in
\* between, only the clicked node's flag differs, so the descendants a
\* collapse hides come back with the flags they had.
C29_ToggleTwice ==
    Rendered =>
        \A i \in 1..Len(scene.nodes) :
            scene.nodes[i].clickable =>
                LET n     == scene.nodes[i].id
                    once  == render(renderer, onclick(rnodes, n))
                    twice == render(renderer, onclick(once.ns, n))
                IN  /\ Flags(twice.ns) = Flags(rnodes)
                    /\ twice.scene = scene
                    /\ once.scene # scene
                    /\ \A m \in Ids \ {n} : once.ns[m].expanded = rnodes[m].expanded
                    /\ {twice.scene.nodes[k].id : k \in 1..Len(twice.scene.nodes)}
                          = VisibleIds

\* The root and a first-level node with children are both expanded, so a
\* collapse of the root hides an expanded node and its children.
C29_Witness ==
    /\ Rendered
    /\ last.event = "click"
    /\ rnodes[1].expanded
    /\ \E n \in Ids : rnodes[n].depth = 1 /\ ShowsChildren(n)

-----------------------------------------------------------------------------
(* C21 *)

\* C21: at most one node is selected in every state, and a double
\* activation of a card makes its node the only selected one, sends the
\* host the node's name, dimension, value, count, hasChildren and
\* childCount, and leaves the expanded flag of every node as it was.
C21_SoleSelection ==
    /\ [](Cardinality(selection.selected) <= 1)
    /\ [][\A i \in 1..Len(scene.nodes) :
             DoubleActivate(i) =>
                 LET n    == scene.nodes[i].id
                     node == SemanticTree(n)
                 IN  /\ selection'.selected = {n}
                     /\ selection'.message
                           = [name        |-> node.name,
                              dimension   |-> node.dimension,
                              value       |-> node.value,
                              count       |-> node.count,
                              hasChildren |-> node.children # <<>>,
                              childCount  |-> Len(node.children)]
                     /\ Flags(rnodes') = Flags(rnodes)]_vars

\* A node below the root has just been selected, with a first-level node
\* expanded by an earlier click.
C21_Witness ==
    /\ Rendered
    /\ last.event = "dblclick"
    /\ \E n \in Ids : n # 1 /\ selection.selected = {n}
    /\ \E n \in Ids : rnodes[n].depth = 1 /\ rnodes[n].expanded

-----------------------------------------------------------------------------
(* C22 *)

\* The outcomes in which the service fails.
ServiceFailures == {"no_session", "sql_error", "no_column"}

\* The node an ai_insights function was called for.
InsightNode == (CHOOSE ln \in TreeNodes : ln.path = insight.path).node

\* C22: when the service fails, whatever the node, generate_ai_summary and
\* generate_child_insights raise nothing and return a fallback text: the
\* "Unable to generate ..." message with the error, or, for a node without
\* children, the "No child segments" message of generate_child_insights;
\* the tree stays the one that was built.
C22_ServiceFailureContained ==
    (pc = "answered" /\ insight.service \in ServiceFailures) =>
        /\ ~raised
        /\ tree = build_hierarchy(module, df, dimensions, metric)
        /\ insight.fn = "generate_ai_summary" =>
              insight.text = [kind  |-> "Unable to generate insights: ",
                              error |-> insight.service]
        /\ insight.fn = "generate_child_insights" =>
              insight.text =
                  IF InsightNode.children = <<>>
                  THEN [kind |-> "No child segments available for analysis.", error |-> ""]
                  ELSE [kind  |-> "Unable to generate child insights: ",
                        error |-> insight.service]

\* No session is available when child insights are asked for a first-level
\* node that has children.
C22_Witness ==
    /\ pc = "answered"
    /\ insight.fn = "generate_child_insights"
    /\ insight.service = "no_session"
    /\ Len(insight.path) = 1
    /\ InsightNode.children # <<>>
    /\ insight.text.kind = "Unable to generate child insights: "

-----------------------------------------------------------------------------
(* C23 *)

\* The tree the frame would show had it been loaded with `tree` just now.
FreshlyLoaded == render(renderer, processNode(tree, 0, 0, 1)).ns

\* C23: the tree a host page displays is the one build_hierarchy gives for
\* the frame, the metric and the dimension levels the user has selected at
\* present, and a frame loaded by a run of the page starts from the initial
\* expansion state.
C23_TreeFollowsSelection ==
    page.shown = "tree" =>
        /\ tree = build_hierarchy(module, df, page.selected_dims, metric)
        /\ (last.event = "run" /\ last.rerender) => rnodes = FreshlyLoaded

-----------------------------------------------------------------------------
(* C30 *)

\* C30: in the host pages the stored dimension selection is never empty, so
\* every tree displayed was built from a non-empty dimension list, and main
\* of streamlit_app.py never displays the warning.
C30_StoredSelectionNonEmpty ==
    /\ dimensions # <<>>
    /\ page.shown = "tree" => tree = build_hierarchy(module, df, dimensions, metric)
    /\ renderer = "streamlit_app" => page.shown # "warning"

\* The user of streamlit_app.py has removed every level from the
\* multiselect, and the page still shows a tree of the stored levels.
C30_Witness ==
    /\ renderer = "streamlit_app"
    /\ pc = "rendered"
    /\ page.selected_dims = <<>>
    /\ page.shown = "tree"
    /\ dimensions # <<>>
    /\ tree.children # <<>>


====
